---- MODULE Spec2Model ----
(***************************************************************************)
(* A model of sensor_dashboard.py: the Streamlit script that polls a       *)
(* ThingSpeak channel, normalises the feed into a DataFrame, classifies    *)
(* its freshness and renders it.                                           *)
(*                                                                         *)
(* Units.  Time is counted in half hours on one absolute axis; the model's *)
(* origin 0 is 2024-01-01T00:00:00Z.  A number is an exact decimal         *)
(* m * 10^(-e), normalised so that e = 0 or m is no multiple of 10.        *)
(* Text is a sequence of tokens: numeric text is held character by         *)
(* character, so that its parsing is computed; a timestamp is held as its  *)
(* date and clock parts, a log message as its words and separators.        *)
(***************************************************************************)
EXTENDS Integers, Sequences, FiniteSets, TLC

VARIABLES
    last_data,      \* st.session_state.last_data: the held frame (or None)
    last_update,    \* st.session_state.last_update: a time, or NoTime
    now,            \* the wall clock, datetime.now()
    auto_refresh,   \* the "Auto-refresh (30s)" checkbox
    channel_id,     \* the "Channel ID" text input ("" when empty)
    button,         \* st.button's value in the current script run
    pc,             \* where the script run stands
    sidebar_msg,    \* the sidebar message of the current run
    view,           \* what the main content area shows
    outcome,        \* history: how the most recent HTTP GET ended
    last_ok,        \* history: the body of the most recent GET that succeeded
    unrendered,     \* history: a stored, non-empty result is not yet rendered
    arg,            \* input of the function under study (pure specifications)
    res             \* its result

vars == <<last_data, last_update, now, auto_refresh, channel_id, button, pc,
          sidebar_msg, view, outcome, last_ok, unrendered, arg, res>>

mainVars == <<last_data, last_update, now, auto_refresh, channel_id, button,
              pc, sidebar_msg, view, outcome, last_ok, unrendered>>

-----------------------------------------------------------------------------
(* Bounds of the model. *)

MaxFeeds == 2       \* longest feed list of a fetched batch
MaxNow == 1         \* the clock runs from 0 to MaxNow
MaxRows == 2        \* longest frame of the freshness and status studies
MaxBatch == 3       \* longest feed list of the normaliser study
MaxAge == 13        \* largest age of a record, in half hours (freshness study)
MaxInterval == 7    \* largest expected interval, in half hours (freshness study)

(* Program constants. *)

HalfHour == 1                   \* the 0.5 of warning_threshold
Hour == 2 * HalfHour
DefaultInterval == 3 * Hour     \* expected_interval_hours=3

-----------------------------------------------------------------------------
(* Values.  Every cell of a frame and every raw JSON value is a record of  *)
(* one shape, [k, m, e, s]: k names the kind.                              *)

Cell(k, m, e, s) == [k |-> k, m |-> m, e |-> e, s |-> s]

Null == Cell("null", 0, 0, <<>>)        \* JSON null, a key missing in a row
Text(s) == Cell("text", 0, 0, s)        \* a JSON or Python string
NaN == Cell("nan", 0, 0, <<>>)          \* float NaN
Num(m, e) == Cell("num", m, e, <<>>)    \* the number m * 10^(-e)
Time(t) == Cell("time", t, 0, <<>>)     \* a pandas Timestamp

NoTime == -1000                         \* last_update is None

None == [k |-> "none", cols |-> {}, rows |-> <<>>]      \* Python None
Raised == [k |-> "raise", cols |-> {}, rows |-> <<>>]   \* an exception left the call
Frame(cols, rows) == [k |-> "df", cols |-> cols, rows |-> rows]

-----------------------------------------------------------------------------
(* pd.to_numeric(..., errors='coerce') on one value. *)

DigitVal ==
    "0" :> 0 @@ "1" :> 1 @@ "2" :> 2 @@ "3" :> 3 @@ "4" :> 4 @@
    "5" :> 5 @@ "6" :> 6 @@ "7" :> 7 @@ "8" :> 8 @@ "9" :> 9

IsDigit(c) == c \in DOMAIN DigitVal

AllDigits(s) == \A i \in 1..Len(s) : IsDigit(s[i])

RECURSIVE DigitsValue(_)
DigitsValue(s) ==
    IF s = <<>> THEN 0
    ELSE 10 * DigitsValue(SubSeq(s, 1, Len(s) - 1)) + DigitVal[s[Len(s)]]

\* Position of the first "." of s, or Len(s) + 1.
DotAt(s) ==
    IF \E i \in 1..Len(s) : s[i] = "."
    THEN CHOOSE i \in 1..Len(s) : s[i] = "." /\ \A j \in 1..(i - 1) : s[j] # "."
    ELSE Len(s) + 1

RECURSIVE Normalise(_, _)
Normalise(m, e) ==
    IF e > 0 /\ m % 10 = 0 THEN Normalise(m \div 10, e - 1) ELSE Num(m, e)

\* An unsigned decimal literal: digits, at most one ".", at least one digit.
ParseUnsigned(s, sign) ==
    LET d == DotAt(s)
        ip == SubSeq(s, 1, d - 1)
        fp == SubSeq(s, d + 1, Len(s))
    IN  IF AllDigits(ip) /\ AllDigits(fp) /\ Len(ip) + Len(fp) >= 1
        THEN Normalise(sign * DigitsValue(ip \o fp), Len(fp))
        ELSE NaN

\* A failed parse stored as 0 (a fillna(0) after the coercion).
CoerceToZero == Num(0, 0)

CoerceFailure == NaN        \* errors='coerce': what an invalid parse becomes

ToNumeric(v) ==
    CASE v.k = "num" -> v
      [] v.k = "text" ->
            LET p == IF v.s # <<>> /\ v.s[1] = "-"
                     THEN ParseUnsigned(Tail(v.s), -1)
                     ELSE ParseUnsigned(v.s, 1)
            IN  IF p.k = "nan" THEN CoerceFailure ELSE p
      [] OTHER -> NaN

-----------------------------------------------------------------------------
(* pd.to_datetime on one value.  A timestamp string is held as its tokens  *)
(* <<date, "T", clock, "Z">> (the "Z" optional); the tables give the day   *)
(* and the time of day of the tokens the model uses.  The result is a time *)
(* or NaT (a null), or the string does not parse.                          *)

DateTable == "2023-12-31" :> -1 @@ "2024-01-01" :> 0
ClockTable ==
    "00:00:00" :> 0 @@ "00:30:00" :> HalfHour @@ "18:00:00" :> 18 * Hour @@
    "20:30:00" :> 20 * Hour + HalfHour

Day == 24 * Hour

Parseable(v) ==
    \/ v.k = "null"
    \/ /\ v.k = "text"
       /\ Len(v.s) \in {3, 4}
       /\ v.s[1] \in DOMAIN DateTable
       /\ v.s[2] = "T"
       /\ v.s[3] \in DOMAIN ClockTable
       /\ Len(v.s) = 4 => v.s[4] = "Z"

ToDatetime(v) ==
    IF v.k = "null" THEN Null
    ELSE Time(DateTable[v.s[1]] * Day + ClockTable[v.s[3]])

-----------------------------------------------------------------------------
(* field8: unquote_plus(x.replace('+', ' ')) if pd.notna(x) else ''.       *)

HexTable == "20" :> " " @@ "2B" :> "+" @@ "3A" :> ":" @@ "2D" :> "-"

RECURSIVE Unquote(_)
Unquote(s) ==
    IF s = <<>> THEN <<>>
    ELSE IF s[1] = "%" /\ Len(s) >= 2 /\ s[2] \in DOMAIN HexTable
         THEN <<HexTable[s[2]]>> \o Unquote(SubSeq(s, 3, Len(s)))
         ELSE <<(IF s[1] = "+" THEN " " ELSE s[1])>> \o Unquote(Tail(s))

DecodeMessage(v) == IF v.k = "text" THEN Text(Unquote(v.s)) ELSE Text(<<>>)

-----------------------------------------------------------------------------
(* process_data. *)

NumericFields ==
    {"field1", "field2", "field3", "field4", "field5", "field6", "field7"}

\* pd.DataFrame(feeds): the columns are the union of the keys, and a row
\* without a key holds a null there.
DataFrame(feeds) ==
    LET cols == UNION {DOMAIN feeds[i] : i \in 1..Len(feeds)}
    IN  Frame(cols,
              [i \in 1..Len(feeds) |->
                  [c \in cols |-> IF c \in DOMAIN feeds[i] THEN feeds[i][c] ELSE Null]])

ConvertCell(c, v) ==
    CASE c = "created_at" -> ToDatetime(v)
      [] c \in NumericFields -> ToNumeric(v)
      [] c = "field8" -> DecodeMessage(v)
      [] OTHER -> v

\* The rows of the frame process_data returns when nothing raises.
ConvertRows(df) ==
    [i \in 1..Len(df.rows) |-> [c \in df.cols |-> ConvertCell(c, df.rows[i][c])]]

\* A body is the parsed JSON object: [keys, feeds], keys the names it holds
\* and feeds the list under "feeds" (<<>> when there is none).  An object
\* without keys, {}, is falsy.
Truthy(data) == data.keys # {}

process_data(data) ==
    IF ~Truthy(data) \/ "feeds" \notin data.keys \/ data.feeds = <<>> THEN None
    ELSE LET df == DataFrame(data.feeds)
         IN  IF "created_at" \notin df.cols THEN Raised
             ELSE IF \E i \in 1..Len(df.rows) : ~Parseable(df.rows[i].created_at)
                  THEN Raised
                  ELSE Frame(df.cols, ConvertRows(df))

-----------------------------------------------------------------------------
(* check_missed_updates.  The result is [type, msg, hours]: msg names the  *)
(* message and hours is time_since_update.                                *)

Notification(type, msg, hours) == [type |-> type, msg |-> msg, hours |-> hours]

SetMax(S) == CHOOSE x \in S : \A y \in S : y <= x

\* df['created_at'].max(): NaT is skipped.
StampTimes(df) ==
    {df.rows[i].created_at.m : i \in {j \in 1..Len(df.rows) : df.rows[j].created_at.k = "time"}}

\* The two comparisons in the other order.
OverdueFirst(h, warning_threshold, missed_threshold) ==
    IF h >= warning_threshold THEN Notification("warning", "overdue", h)
    ELSE IF h >= missed_threshold THEN Notification("danger", "missed", h)
    ELSE Notification("success", "normal", h)

MissedFirst(h, warning_threshold, missed_threshold) ==
    IF h >= missed_threshold THEN Notification("danger", "missed", h)
    ELSE IF h >= warning_threshold THEN Notification("warning", "overdue", h)
    ELSE Notification("success", "normal", h)

check_missed_updates(df, expected_interval, clock) ==
    IF df.k = "none" \/ df.rows = <<>>
    THEN Notification("danger", "No data available", 0)
    ELSE IF StampTimes(df) = {}
         THEN Notification("success", "normal", 0)  \* every stamp NaT: the age is nan
         ELSE LET latest_update == SetMax(StampTimes(df))
                  time_since_update == clock - latest_update
                  warning_threshold == expected_interval + HalfHour
                  missed_threshold == expected_interval * 2
              IN  MissedFirst(time_since_update, warning_threshold, missed_threshold)

-----------------------------------------------------------------------------
(* get_status_text and the derived columns of main. *)

IsNa(x) == x.k \in {"nan", "null"}

RECURSIVE Pow10(_)
Pow10(n) == IF n = 0 THEN 1 ELSE 10 * Pow10(n - 1)

\* int(x): truncation towards zero.
IntOf(x) ==
    IF x.m >= 0 THEN x.m \div Pow10(x.e) ELSE -((-x.m) \div Pow10(x.e))

\* x == n for an integer n.
EqualsInt(x, n) == x.k = "num" /\ x.e = 0 /\ x.m = n

Label(text, code) == [text |-> text, code |-> code]

status_map ==
    1 :> "Upload Retry Success" @@ 2 :> "WiFi Retry Success" @@
    3 :> "Low Battery Warning" @@ 4 :> "Normal Reading"

StatusKey(status_code) == IntOf(status_code)

get_status_text(status_code) ==
    IF IsNa(status_code) THEN Label("Unknown", 0)
    ELSE LET key == StatusKey(status_code)
         IN  IF key \in DOMAIN status_map THEN Label(status_map[key], 0)
             ELSE Label("Code", key)

\* x in [1, 2]
InRetryCodes(x) == EqualsInt(x, 1) \/ EqualsInt(x, 2)

attempts(x) == IF InRetryCodes(x) THEN 2 ELSE IF ~IsNa(x) THEN 1 ELSE 1

status_color(x) ==
    IF InRetryCodes(x) THEN "red" ELSE IF ~IsNa(x) THEN "green" ELSE "blue"

\* len(df[(df['field4'] == 1) | (df['field4'] == 2)])
retry_count(df) ==
    Cardinality({i \in 1..Len(df.rows) :
        EqualsInt(df.rows[i].field4, 1) \/ EqualsInt(df.rows[i].field4, 2)})

Zero == Num(0, 0)

\* latest[field] if pd.notna(latest[field]) else 0
Current(df, field) ==
    LET latest == df.rows[Len(df.rows)]
    IN  IF ~IsNa(latest[field]) THEN latest[field] ELSE Zero

-----------------------------------------------------------------------------
(* The feeds the model draws from. *)

Stamp(date, clock) == Text(<<date, "T", clock, "Z">>)

StampOld == Stamp("2023-12-31", "18:00:00")     \* 6 h before the origin
StampNew == Stamp("2024-01-01", "00:00:00")     \* the origin
BadStamp == Text(<<"not-a-date">>)

T1(a) == Text(<<a>>)
T3(a, b, c) == Text(<<a, b, c>>)
T4(a, b, c, d) == Text(<<a, b, c, d>>)

\* "Signal%3A+-67+dBm", a percent escape held as "%" and its two hex digits.
SampleLog == Text(<<"Signal", "%", "3A", "+", "-67", "+", "dBm">>)

\* An entry of a channel with every field the dashboard reads.
Entry(stamp, f1, f4) ==
    [created_at |-> stamp, field1 |-> f1, field2 |-> T3("5", "1", "2"),
     field3 |-> T3("3", ".", "7"), field4 |-> f4, field8 |-> SampleLog]

\* An entry of a channel that defines field1 alone.
Sparse(stamp, f1) == [created_at |-> stamp, field1 |-> f1]

SeqsUpTo(S, n) == UNION {[1..k -> S] : k \in 0..n}

Body(keys, feeds) == [keys |-> keys, feeds |-> feeds]

MainEntries ==
    { Entry(StampOld, T4("2", "3", ".", "5"), T1("1")),
      Entry(BadStamp, T4("2", "3", ".", "5"), T1("2")),
      Sparse(StampNew, T3("a", "b", "c")) }

\* What a 2xx response with a JSON object can hold: {}, an object without
\* "feeds", and objects with a feeds list (the empty list among them).
Bodies ==
    {Body({}, <<>>), Body({"channel"}, <<>>)}
    \cup {Body({"channel", "feeds"}, f) : f \in SeqsUpTo(MainEntries, MaxFeeds)}

-----------------------------------------------------------------------------
(* main: the main content area (lines 266-468). *)

NoNote == Notification("none", "none", 0)

View(kind, note, df) ==
    [kind |-> kind, note |-> note,
     moisture |-> IF kind = "dashboard" THEN Current(df, "field1") ELSE Zero,
     battery |-> IF kind = "dashboard" THEN Current(df, "field3") ELSE Zero,
     retry |-> IF kind = "dashboard" THEN retry_count(df) ELSE 0,
     total |-> IF kind = "dashboard" THEN Len(df.rows) ELSE 0,
     attempts |-> IF kind = "dashboard"
                  THEN [i \in 1..Len(df.rows) |-> attempts(df.rows[i].field4)]
                  ELSE <<>>,
     colors |-> IF kind = "dashboard"
                THEN [i \in 1..Len(df.rows) |-> status_color(df.rows[i].field4)]
                ELSE <<>>,
     labels |-> IF kind = "dashboard"
                THEN [i \in 1..Len(df.rows) |-> get_status_text(df.rows[i].field4)]
                ELSE <<>>]

\* The columns main reads: a missing one raises KeyError after the
\* notification is shown.
RenderCols == {"created_at", "field1", "field2", "field3", "field4", "field8"}

HasData(df) == df.k = "df" /\ df.rows # <<>>

\* The footer repeats last_update and is not held in the view.
Render(df, clock) ==
    IF HasData(df)
    THEN LET note == check_missed_updates(df, DefaultInterval, clock)
         IN  IF RenderCols \subseteq df.cols
             THEN View("dashboard", note, df)
             ELSE View("exception", note, df)
    ELSE View("info", NoNote, df)

Blank == View("blank", NoNote, None)
Traceback == View("exception", NoNote, None)

-----------------------------------------------------------------------------
(* The script.  A run of main stands at one of:                            *)
(*   "sidebar"  the run has started and reaches line 249;                  *)
(*   "fetch"    requests.get is in flight (line 117);                      *)
(*   "sleep"    time.sleep(30) before st.experimental_rerun (line 259);    *)
(*   "content"  the sidebar is done and line 267 is next;                  *)
(*   "idle"     the run has ended and the page waits for the user.         *)

Msg(kind, n) == [kind |-> kind, n |-> n]
NoMsg == Msg("none", 0)

PresetChannel == "12345"    \* CHANNEL_PRESETS[...]["channel_id"], a secret
Channels == {"", PresetChannel}

NoBody == Body({"none"}, <<>>)
Unset == [k |-> "unset", cols |-> {}, rows |-> <<>>]


MainInit ==
    /\ last_data = None
    /\ last_update = NoTime
    /\ now = 0
    /\ auto_refresh = FALSE
    /\ channel_id = PresetChannel
    /\ button = FALSE
    /\ pc = "sidebar"
    /\ sidebar_msg = NoMsg
    /\ view = Blank
    /\ outcome = "none"
    /\ last_ok = NoBody
    /\ unrendered = FALSE

Init == MainInit /\ arg = Unset /\ res = Unset

\* A widget changed or the button was clicked: Streamlit runs the script again.
StartRun(clicked) ==
    /\ pc' = "sidebar"
    /\ button' = clicked
    /\ sidebar_msg' = NoMsg

\* The user clicks "Refresh Data".
ClickRefresh ==
    /\ pc = "idle"
    /\ StartRun(TRUE)
    /\ UNCHANGED <<last_data, last_update, now, auto_refresh, channel_id, view,
                   outcome, last_ok, unrendered, arg, res>>

\* The user ticks or unticks "Auto-refresh (30s)"; during the sleep the new
\* value is seen by the run that st.experimental_rerun starts.
ToggleAutoRefresh ==
    /\ pc \in {"idle", "sleep"}
    /\ auto_refresh' = ~auto_refresh
    /\ IF pc = "idle" THEN StartRun(FALSE)
                      ELSE UNCHANGED <<pc, button, sidebar_msg>>
    /\ UNCHANGED <<last_data, last_update, now, channel_id, view,
                   outcome, last_ok, unrendered, arg, res>>

\* The user edits the "Channel ID" input.
EditChannel ==
    /\ pc = "idle"
    /\ \E c \in Channels \ {channel_id} : channel_id' = c
    /\ StartRun(FALSE)
    /\ UNCHANGED <<last_data, last_update, now, auto_refresh, view,
                   outcome, last_ok, unrendered, arg, res>>

\* Lines 249-250 and 263-264.
Sidebar ==
    /\ pc = "sidebar"
    /\ IF button \/ auto_refresh
       THEN IF channel_id # ""
            THEN pc' = "fetch" /\ UNCHANGED sidebar_msg
            ELSE pc' = "content" /\ sidebar_msg' = Msg("warning", 0)
       ELSE pc' = "content" /\ UNCHANGED sidebar_msg
    /\ UNCHANGED <<last_data, last_update, now, auto_refresh, channel_id, button,
                   view, outcome, last_ok, unrendered, arg, res>>

\* The assignments of lines 255-256 moved out of "if data:".
FetchFailsClears ==
    /\ pc = "fetch"
    /\ outcome' = "failed"
    /\ sidebar_msg' = Msg("error", 0)
    /\ pc' = "content"
    /\ last_data' = None
    /\ last_update' = now
    /\ UNCHANGED <<now, auto_refresh, channel_id, button,
                   view, last_ok, unrendered, arg, res>>

\* requests.get times out, raise_for_status meets a status that is not 2xx,
\* or the body is no JSON and response.json() raises a RequestException:
\* fetch_thingspeak_data returns None and main reports the failure
\* (lines 120-122, 261-262).
FetchFails ==
    /\ pc = "fetch"
    /\ outcome' = "failed"
    /\ sidebar_msg' = Msg("error", 0)
    /\ pc' = "content"
    /\ UNCHANGED <<last_data, last_update, now, auto_refresh, channel_id, button,
                   view, last_ok, unrendered, arg, res>>

\* The body is no JSON and response.json() raises a ValueError that is no
\* RequestException (requests before 2.27): the exception leaves main.
FetchMalformedUncaught ==
    /\ pc = "fetch"
    /\ outcome' = "uncaught"
    /\ pc' = "idle"
    /\ view' = Traceback
    /\ UNCHANGED <<last_data, last_update, now, auto_refresh, channel_id, button,
                   sidebar_msg, last_ok, unrendered, arg, res>>

\* Each body with what process_data makes of it.
Processed == {<<data, process_data(data)>> : data \in Bodies}

\* The GET succeeds with a JSON object (lines 117-119, 253-262).
FetchSucceeds ==
    /\ pc = "fetch"
    /\ \E p \in Processed :
        /\ outcome' = "ok"
        /\ last_ok' = p[1]
        /\ IF Truthy(p[1])
           THEN LET df == p[2]
                IN  IF df.k = "raise"
                    THEN /\ pc' = "idle"
                         /\ view' = Traceback
                         /\ UNCHANGED <<last_data, last_update, sidebar_msg, unrendered>>
                    ELSE /\ last_data' = df
                         /\ last_update' = now
                         /\ sidebar_msg' = Msg("success", Len(df.rows))
                         /\ unrendered' = HasData(df)
                         /\ pc' = IF auto_refresh THEN "sleep" ELSE "content"
                         /\ UNCHANGED view
           ELSE /\ sidebar_msg' = Msg("error", 0)
                /\ pc' = "content"
                /\ UNCHANGED <<last_data, last_update, view, unrendered>>
    /\ UNCHANGED <<now, auto_refresh, channel_id, button, arg, res>>

\* time.sleep(30) ends and st.experimental_rerun() starts the script again
\* (lines 258-260).
Rerun ==
    /\ pc = "sleep"
    /\ StartRun(FALSE)
    /\ UNCHANGED <<last_data, last_update, now, auto_refresh, channel_id, view,
                   outcome, last_ok, unrendered, arg, res>>

\* Lines 266-468: the main content and the footer.
Content ==
    /\ pc = "content"
    /\ view' = Render(last_data, now)
    /\ unrendered' = FALSE
    /\ pc' = "idle"
    /\ UNCHANGED <<last_data, last_update, now, auto_refresh, channel_id, button,
                   sidebar_msg, outcome, last_ok, arg, res>>

\* Time passes.
Tick ==
    /\ now < MaxNow
    /\ now' = now + 1
    /\ UNCHANGED <<last_data, last_update, auto_refresh, channel_id, button, pc,
                   sidebar_msg, view, outcome, last_ok, unrendered, arg, res>>

Next ==
    \/ ClickRefresh
    \/ ToggleAutoRefresh
    \/ EditChannel
    \/ Sidebar
    \/ FetchFails
    \/ FetchMalformedUncaught
    \/ FetchSucceeds
    \/ Rerun
    \/ Content
    \/ Tick

Spec == Init /\ [][Next]_vars

-----------------------------------------------------------------------------
(* process_data on its own: the batch is drawn, then normalised, and the   *)
(* current moisture is computed from the result as main does.              *)

Missing == Cell("missing", 0, 0, <<>>)      \* the entry holds no such key

NormEntry(stamp, f1, f7) ==
    IF f1 = Missing
    THEN [created_at |-> stamp, field7 |-> f7]
    ELSE [created_at |-> stamp, field1 |-> f1, field7 |-> f7]

NormEntries ==
    {NormEntry(st, f1, T3("-", ".", "5")) :
        st \in {StampOld, StampNew, BadStamp},
        f1 \in {T4("2", "3", ".", "5"), T3("a", "b", "c"), Missing}}
    \cup {NormEntry(st, f1, T3("1", ".", ".")) :
        st \in {StampOld, StampNew, BadStamp},
        f1 \in {Null, T1("0"), T3("1", ".", "0")}}

NormInit ==
    /\ MainInit
    /\ arg \in {Body({"channel", "feeds"}, f) : f \in SeqsUpTo(NormEntries, MaxBatch)}
    /\ res = Unset

NormStep ==
    /\ res.k = "unset"
    /\ LET out == process_data(arg)
       IN  res' = [k |-> "norm", out |-> out,
                   moisture |-> IF HasData(out) /\ "field1" \in out.cols
                                THEN Current(out, "field1") ELSE Zero]
    /\ UNCHANGED <<arg, mainVars>>

NormSpec == NormInit /\ [][NormStep]_vars

-----------------------------------------------------------------------------
(* check_missed_updates on its own: a frame of records of the drawn ages,  *)
(* an expected interval, and the clock at the origin.                      *)

Ages == (-1)..MaxAge

AgedFrame(ages) ==
    Frame({"created_at"}, [i \in 1..Len(ages) |-> [created_at |-> Time(0 - ages[i])]])

FreshInit ==
    /\ MainInit
    /\ arg \in {[k |-> "fresh", ages |-> a, interval |-> e] :
                    a \in SeqsUpTo(Ages, MaxRows), e \in 0..MaxInterval}
    /\ res = Unset

FreshStep ==
    /\ res.k = "unset"
    /\ res' = [k |-> "fresh",
               note |-> check_missed_updates(AgedFrame(arg.ages), arg.interval, 0)]
    /\ UNCHANGED <<arg, mainVars>>

FreshSpec == FreshInit /\ [][FreshStep]_vars

-----------------------------------------------------------------------------
(* The status derivations on their own: a batch whose field4 values are    *)
(* drawn is normalised, then main's retry count, attempts, colours and     *)
(* labels are computed (lines 287, 398-399, 422).                          *)

StatusSamples ==
    {T1("1"), T1("2"), T1("3"), T1("4"), T1("7"), T3("1", ".", "5"),
     T3("2", ".", "9"), T3("1", ".", "0"), T3("3", ".", "7"), T3("0", ".", "5"),
     T3("a", "b", "c"), Text(<<"-", "1">>), Null}

StatusInit ==
    /\ MainInit
    /\ arg \in {Body({"channel", "feeds"}, f) :
                    f \in SeqsUpTo({Entry(StampNew, T1("0"), x) : x \in StatusSamples},
                                   MaxRows) \ {<<>>}}
    /\ res = Unset

StatusStep ==
    /\ res.k = "unset"
    /\ LET df == process_data(arg)
           n == Len(df.rows)
       IN  res' = [k |-> "status",
                   codes |-> [i \in 1..n |-> df.rows[i].field4],
                   retry |-> retry_count(df),
                   attempts |-> [i \in 1..n |-> attempts(df.rows[i].field4)],
                   colors |-> [i \in 1..n |-> status_color(df.rows[i].field4)],
                   labels |-> [i \in 1..n |-> get_status_text(df.rows[i].field4)]]
    /\ UNCHANGED <<arg, mainVars>>

StatusSpec == StatusInit /\ [][StatusStep]_vars

-----------------------------------------------------------------------------
(* The script under the scheduling Streamlit gives it: a run that has      *)
(* started goes on to its end, the GET returns within its timeout, and the *)
(* sleep ends.  The user and the clock owe nothing.                        *)

FetchReturns == FetchFails \/ FetchMalformedUncaught \/ FetchSucceeds

FairSpec ==
    /\ Init
    /\ [][Next]_vars
    /\ WF_vars(Sidebar)
    /\ WF_vars(FetchReturns)
    /\ WF_vars(Rerun)
    /\ WF_vars(Content)

-----------------------------------------------------------------------------
(* Claims. *)

FetchFailed == outcome \in {"failed", "uncaught"}

YoungestAge(ages) == CHOOSE a \in {ages[i] : i \in 1..Len(ages)} :
                        \A i \in 1..Len(ages) : a <= ages[i]

\* C2: for a non-empty frame whose latest record is h old and an expected
\* interval E, the result is Missed iff h >= 2E, Overdue iff E + 0.5 <= h < 2E,
\* and Normal otherwise; both boundaries are inclusive and Missed wins.
C2_FreshnessPrecedence ==
    (res.k = "fresh" /\ arg.ages # <<>>) =>
        LET h == YoungestAge(arg.ages)
            E == arg.interval
            missed == h >= 2 * E
            overdue == E + HalfHour <= h /\ h < 2 * E
        IN  /\ res.note.type \in {"danger", "warning", "success"}
            /\ (res.note.type = "danger") <=> missed
            /\ (res.note.type = "warning") <=> overdue
            /\ (res.note.type = "success") <=> (~missed /\ ~overdue)
            /\ (res.note.msg = "missed") <=> missed
            /\ (res.note.msg = "overdue") <=> overdue
            /\ res.note.hours = h

\* C2 witness: a record exactly 2E old, at the default interval, is Missed.
C2_Witness ==
    /\ res.k = "fresh"
    /\ arg.interval = DefaultInterval
    /\ arg.ages = <<2 * DefaultInterval>>
    /\ res.note.type = "danger"

GoodStamp(e) == Parseable(e.created_at)

\* C3: process_data returns exactly the entries whose created_at parses, in
\* their order, and one bad timestamp never fails the batch.
C3_BadStampDropped ==
    res.k = "norm" =>
        LET kept == SelectSeq(arg.feeds, GoodStamp)
        IN  /\ res.out.k \in {"df", "none"}
            /\ Len(res.out.rows) = Len(kept)
            /\ \A i \in 1..Len(kept) :
                    res.out.rows[i].created_at = ToDatetime(kept[i].created_at)

\* C4: after a tick whose fetch succeeded with a channel object whose feed
\* list is empty or missing, no error is shown, the held result is empty, and
\* the freshness status presented is Missed with "No data available".
C4_EmptyFeedShowsMissed ==
    (pc = "idle" /\ outcome = "ok" /\ last_ok.feeds = <<>> /\ "channel" \in last_ok.keys) =>
        /\ sidebar_msg.kind # "error"
        /\ view.kind # "exception"
        /\ ~HasData(last_data)
        /\ view.note.type = "danger"
        /\ view.note.msg = "No data available"

\* What each sample text denotes, read off the text itself.
Denoted(raw) ==
    CASE raw = T4("2", "3", ".", "5") -> Num(235, 1)
      [] raw = T1("0") -> Num(0, 0)
      [] raw = T3("1", ".", "0") -> Num(1, 0)
      [] raw = T3("-", ".", "5") -> Num(-5, 1)
      [] OTHER -> NaN

RawOf(entry, field) == IF field \in DOMAIN entry THEN entry[field] ELSE Missing

\* C5: every numeric field of every normalised entry holds the number its raw
\* text denotes, or is absent when the raw value is non-numeric or missing; a
\* failed parse is never stored as 0 and never fails the batch, and 0 appears
\* for it only in the current-value display.
C5_ParseOrAbsent ==
    res.k = "norm" =>
        /\ (\A i \in 1..Len(arg.feeds) : GoodStamp(arg.feeds[i]))
                => res.out.k \in {"df", "none"}
        /\ res.out.k = "df" =>
            /\ \A i \in 1..Len(res.out.rows) :
                \A f \in NumericFields \cap res.out.cols :
                    LET raw == RawOf(arg.feeds[i], f)
                        cell == res.out.rows[i][f]
                    IN  /\ cell = Denoted(raw)
                        /\ cell = Zero => raw = T1("0")
            /\ "field1" \in res.out.cols =>
                LET last == res.out.rows[Len(res.out.rows)].field1
                IN  res.moisture = IF last = NaN THEN Zero ELSE last

\* C5 witness: "23.5", "abc" and a missing field1 normalised to 23.5, absent
\* and absent, the last shown as 0.
C5_Witness ==
    /\ res.k = "norm"
    /\ res.out.k = "df"
    /\ Len(arg.feeds) = 3
    /\ RawOf(arg.feeds[1], "field1") = T4("2", "3", ".", "5")
    /\ RawOf(arg.feeds[2], "field1") = T3("a", "b", "c")
    /\ RawOf(arg.feeds[3], "field1") = Missing
    /\ res.out.rows[1].field1 = Num(235, 1)
    /\ res.out.rows[2].field1 = NaN
    /\ res.out.rows[3].field1 = NaN
    /\ res.moisture = Zero

RetryLabels == {Label("Upload Retry Success", 0), Label("WiFi Retry Success", 0)}

\* C6: status_code in {1, 2} gives count 2, the retry label and the retry
\* colour; a present status_code outside {1, 2} gives count 1, the normal
\* colour and the label of 3 or 4, else "Code: {status_code}"; an absent one
\* gives count 1, the unknown colour and "Unknown".
C6_StatusDerivation ==
    res.k = "status" =>
        \A i \in 1..Len(res.codes) :
            LET x == res.codes[i]
                present == x.k = "num"
                retry == present /\ x.e = 0 /\ x.m \in {1, 2}
            IN  /\ res.attempts[i] \in {1, 2}
                /\ retry =>
                    /\ res.attempts[i] = 2
                    /\ res.colors[i] = "red"
                    /\ res.labels[i] = Label(status_map[x.m], 0)
                /\ (present /\ ~retry) =>
                    /\ res.attempts[i] = 1
                    /\ res.colors[i] = "green"
                    /\ res.labels[i] =
                            IF x.e = 0 /\ x.m \in {3, 4}
                            THEN Label(status_map[x.m], 0)
                            ELSE Label("Code", x.m)
                    /\ res.labels[i].text = "Code" => x.e = 0
                /\ ~present =>
                    /\ res.attempts[i] = 1
                    /\ res.colors[i] = "blue"
                    /\ res.labels[i] = Label("Unknown", 0)

\* C7: the held frame is the normalisation of the batch of the most recent
\* fetch that succeeded, and last_update is set with it.
C7_LastWriteWins ==
    last_ok # NoBody =>
        /\ last_data = process_data(last_ok)
        /\ last_update # NoTime

\* C8: a non-empty result that was fetched and stored is rendered before the
\* next fetch is issued.
C8_RenderBeforeNextFetch == pc = "fetch" => ~unrendered

AutoOn == auto_refresh /\ channel_id # ""

\* C9: while auto-refresh stays on and a channel id is set, a run whose fetch
\* failed is followed by another fetch: the failure does not end the loop.
C9_AutoRefreshKeepsTicking ==
    [](((pc \in {"idle", "sleep"}) /\ AutoOn /\ outcome = "failed")
            => <>(pc = "fetch" \/ ~AutoOn))

\* C10: a status value is labelled as a retry exactly when its attempt count
\* is 2, and the retry metric counts the records whose attempt count is 2.
C10_RetryAgreement ==
    res.k = "status" =>
        /\ \A i \in 1..Len(res.codes) :
                (res.labels[i] \in RetryLabels) <=> (res.attempts[i] = 2)
        /\ res.retry = Cardinality({i \in 1..Len(res.codes) : res.attempts[i] = 2})

====
